---------------------------- MODULE Spec2Model ----------------------------
(***************************************************************************)
(* A model of the tabular streaming core of swissknife:                    *)
(*   - swissknife/utils.py: TableWithHeaderIterator, lenient_float,        *)
(*     only_numbers, sublist, flatten and the aggregator functions;        *)
(*   - swissknife/scripts/aggregate.py: process_files_column,              *)
(*     process_files_column_single and process_files_multiple;             *)
(*   - swissknife/scripts/groupby.py: process_file and main;               *)
(*   - swissknife/utils.py: parse_index_specification;                     *)
(*   - swissknife/scripts/remap.py: load_mapping, remap_file and main;     *)
(*   - the delimiter options of aggregate.py and groupby.py, and the       *)
(*     input files the two scripts open.                                   *)
(*                                                                         *)
(* A text line is a sequence of one-character strings.  A float is the     *)
(* exact rational <<n, d>> (d > 0, lowest terms); None is <<"None">>.      *)
(* The state machines share the variables; each has its own specification  *)
(* (SpecIter, SpecColumn, SpecMultiple, SpecGroup, SpecParse, SpecFunc,    *)
(* SpecOpt, SpecStream, SpecRemap) that leaves the other machines'         *)
(* variables at their idle values.                                         *)
(***************************************************************************)
EXTENDS Integers, Sequences, FiniteSets, TLC

VARIABLES
    \* TableWithHeaderIterator (utils.py)
    it,             \* the constructor's arguments kept on self (delimiter, every, fields, strip, first_column_is_date)
    seen_header,    \* self.seen_header
    headers,        \* self.headers
    line_number,    \* __iter__'s local line_number
    yielded,        \* the rows __iter__ has yielded so far, in order
    it_pc,          \* "idle" | "iter" | "done" | "IndexError"
    it_log,         \* what __iter__ did with each line read so far
    \* aggregate.py (both modes)
    options,        \* options.function, options.fields, options.strip
    lens,           \* multiple mode: per opened stream, the number of lines it holds
    idx,            \* column mode: the number of the stream being read (enumerate's idx, plus 1)
    consumed,       \* per input stream, the number of lines read from it so far
    data_started,   \* the local flag data_started
    result,         \* column mode: the per-column accumulators
    rows,           \* column mode: the data rows converted so far from the current stream, in order
    lines,          \* multiple mode: the loop variable lines, as the last pass of the loop left it
    stdout,         \* the lines printed so far
    pc,             \* "idle" | "run" | "done" | "ValueError" | "IndexError"
    \* groupby.py
    g_options,      \* options.unique, options.fields, options.strip
    g_args,         \* main's args, the names of the input files
    g_arg,          \* the position in args of the file process_file is working on
    keys_to_values, \* process_file's keys_to_values, its entries in insertion order
    g_read,         \* per input file, the lines read from it so far
    g_printed,      \* the number of passes made by the print loop of the current process_file call
    g_stdout,       \* the lines printed so far
    g_pc,           \* "idle" | "read" | "print" | "done" | "IndexError"
    \* parse_index_specification (utils.py)
    p_spec,         \* the argument spec
    p_parts,        \* the parts of spec.split(",") the loop has not reached yet
    p_result,       \* the local result
    p_pc,           \* "idle" | "loop" | "returned" | "ValueError"
    \* one call of an aggregator function
    f_name,         \* the key of the function in the table functions
    f_items,        \* the caller's sequence, passed as the argument
    f_result,       \* the value returned
    f_pc,           \* "idle" | "call" | "returned" | "ValueError" | "UnboundLocalError"
    \* the output delimiter of aggregate.py and groupby.py
    o_tool,         \* "aggregate" | "groupby"
    o_argv,         \* the values given to -d and -D on the command line, None for an option not given
    o_options,      \* options.in_delimiter and options.out_delimiter
    o_fields,       \* the fields of the row to print
    o_line,         \* the line printed, its characters
    o_pc,           \* "idle" | "parse" | "main" | "print" | "done"
    \* the input streams of a run of aggregate.py or groupby.py
    s_mode,         \* "column" | "multiple" | "groupby"
    s_files,        \* per input file, "unopened" | "open" | "closed"
    s_held,         \* the files whose file object the run still refers to
    s_current,      \* the number of the file being read (column mode and groupby)
    s_pc,           \* "idle" | "start" | "run" | "done" | "error"
    \* remap.py
    r_options,      \* options.missing_action and options.fields
    r_mapping,      \* the entries load_mapping has put into data
    r_args,         \* main's args, the names of the input files
    r_arg,          \* the position in args of the file remap_file is working on
    r_read,         \* the lines read so far from the input files, in order
    r_stdout,       \* the lines printed so far
    r_stderr,       \* the keys reported on stderr so far
    r_pc            \* "idle" | "run" | "done" | "UnknownIDError"

iterVars == <<it, seen_header, headers, line_number, yielded, it_pc, it_log>>
aggVars == <<options, lens, idx, consumed, data_started, result, rows, lines, stdout, pc>>
groupVars == <<g_options, g_args, g_arg, keys_to_values, g_read, g_printed, g_stdout, g_pc>>
parseVars == <<p_spec, p_parts, p_result, p_pc>>
funcVars == <<f_name, f_items, f_result, f_pc>>
optVars == <<o_tool, o_argv, o_options, o_fields, o_line, o_pc>>
streamVars == <<s_mode, s_files, s_held, s_current, s_pc>>
remapVars == <<r_options, r_mapping, r_args, r_arg, r_read, r_stdout, r_stderr, r_pc>>
moreVars == <<optVars, streamVars, remapVars>>
vars == <<it, seen_header, headers, line_number, yielded, it_pc, it_log,
          options, lens, idx, consumed, data_started, result, rows, lines, stdout, pc,
          g_options, g_args, g_arg, keys_to_values, g_read, g_printed, g_stdout, g_pc,
          p_spec, p_parts, p_result, p_pc,
          f_name, f_items, f_result, f_pc,
          o_tool, o_argv, o_options, o_fields, o_line, o_pc,
          s_mode, s_files, s_held, s_current, s_pc,
          r_options, r_mapping, r_args, r_arg, r_read, r_stdout, r_stderr, r_pc>>

-----------------------------------------------------------------------------
(* Bounds of the model *)

\* the most lines the stream of a TableWithHeaderIterator holds
MaxIterLines == 3
\* the most lines the input streams of one aggregate run hold together
MaxLines == 4
\* the number of input streams of one aggregate run
NStreams == 2
\* the largest value of the iterator's every argument
MaxEvery == 2

-----------------------------------------------------------------------------
(* Characters and lines *)

TAB == "\t"
NL == "\n"
CR == "\r"
SP == " "

Digits == {"0", "1", "2", "3", "4", "5", "6", "7", "8", "9"}

\* the characters str.strip() without arguments, str.split(None) and float() treat as whitespace
Whitespace == {SP, TAB, NL, CR}

\* the lines an input stream may hold: one or two columns, numeric or not,
\* a blank line, and a line with a trailing delimiter
Lines ==
    { <<"1", NL>>,
      <<"2", NL>>,
      <<"1", TAB, "2", NL>>,
      <<"a", TAB, "b", NL>>,
      <<"1", TAB, "a", NL>>,
      <<NL>>,
      <<"2", TAB, NL>> }

None == <<"None">>

-----------------------------------------------------------------------------
(* Python's str and list primitives *)

RECURSIVE LStrip(_, _)
LStrip(s, chars) ==
    IF s # <<>> /\ Head(s) \in chars THEN LStrip(Tail(s), chars) ELSE s

RECURSIVE RStrip(_, _)
RStrip(s, chars) ==
    IF s # <<>> /\ s[Len(s)] \in chars THEN RStrip(SubSeq(s, 1, Len(s) - 1), chars) ELSE s

\* str.strip(chars)
Strip(s, chars) == RStrip(LStrip(s, chars), chars)

\* str.split(sep) for a one-character separator: "" splits into [""]
RECURSIVE SplitOn(_, _)
SplitOn(s, sep) ==
    IF \E i \in 1..Len(s) : s[i] = sep
    THEN LET i == CHOOSE k \in 1..Len(s) : s[k] = sep /\ \A j \in 1..(k - 1) : s[j] # sep
         IN  <<SubSeq(s, 1, i - 1)>> \o SplitOn(SubSeq(s, i + 1, Len(s)), sep)
    ELSE <<s>>

\* str.split(None): the maximal runs of non-whitespace; "" splits into []
RECURSIVE SplitWhitespace(_)
SplitWhitespace(s) ==
    LET t == LStrip(s, Whitespace)
    IN  IF t = <<>> THEN <<>>
        ELSE IF \E i \in 1..Len(t) : t[i] \in Whitespace
             THEN LET i == CHOOSE k \in 1..Len(t) :
                               t[k] \in Whitespace /\ \A j \in 1..(k - 1) : t[j] \notin Whitespace
                  IN  <<SubSeq(t, 1, i - 1)>> \o SplitWhitespace(SubSeq(t, i + 1, Len(t)))
             ELSE <<t>>

\* a split that gives no field at all for the empty string, whatever the delimiter
Split_BlankIsEmpty(s, delimiter) ==
    IF s = <<>> THEN <<>>
    ELSE IF delimiter = None THEN SplitWhitespace(s) ELSE SplitOn(s, delimiter[1])

\* str.split(delimiter); the delimiter None is written <<"None">>
Split(s, delimiter) ==
    IF delimiter = None THEN SplitWhitespace(s) ELSE SplitOn(s, delimiter[1])

\* l[i] for every i of idxs exists (no IndexError); Python indices, negative ones count from the end
SublistOK(l, idxs) ==
    \A k \in 1..Len(idxs) : idxs[k] < Len(l) /\ idxs[k] >= 0 - Len(l)

sublist(l, idxs) ==
    [k \in 1..Len(idxs) |->
        IF idxs[k] >= 0 THEN l[idxs[k] + 1] ELSE l[Len(l) + idxs[k] + 1]]

-----------------------------------------------------------------------------
(* Numbers *)

Abs(n) == IF n < 0 THEN 0 - n ELSE n

RECURSIVE Gcd(_, _)
Gcd(a, b) == IF b = 0 THEN a ELSE Gcd(b, a % b)

\* the float n/d
Rat(n, d) ==
    LET g == Gcd(Abs(n), Abs(d))
        s == IF d < 0 THEN 0 - 1 ELSE 1
    IN  <<(s * n) \div g, (s * d) \div g>>

RatAdd(a, b) == Rat(a[1] * b[2] + b[1] * a[2], a[2] * b[2])
RatSub(a, b) == Rat(a[1] * b[2] - b[1] * a[2], a[2] * b[2])
RatMul(a, b) == Rat(a[1] * b[1], a[2] * b[2])
RatDiv(a, b) == Rat(a[1] * b[2], a[2] * b[1])
RatLess(a, b) == a[1] * b[2] < b[1] * a[2]

DigitValue(c) ==
    CASE c = "0" -> 0 [] c = "1" -> 1 [] c = "2" -> 2 [] c = "3" -> 3 [] c = "4" -> 4
      [] c = "5" -> 5 [] c = "6" -> 6 [] c = "7" -> 7 [] c = "8" -> 8 [] c = "9" -> 9

RECURSIVE DecimalValue(_)
DecimalValue(s) ==
    IF s = <<>> THEN 0
    ELSE 10 * DecimalValue(SubSeq(s, 1, Len(s) - 1)) + DigitValue(s[Len(s)])

\* float(value) does not raise ValueError: over the model's characters, the
\* text with surrounding whitespace removed is a non-empty run of digits
CanFloat(value) ==
    LET s == Strip(value, Whitespace)
    IN  s # <<>> /\ \A i \in 1..Len(s) : s[i] \in Digits

\* float(value), for a value float() accepts
float(value) == Rat(DecimalValue(Strip(value, Whitespace)), 1)

lenient_float(value) == IF CanFloat(value) THEN float(value) ELSE None

only_numbers(iterable) ==
    ~ \E i \in 1..Len(iterable) : lenient_float(iterable[i]) = None

-----------------------------------------------------------------------------
(* The aggregator functions (utils.py) and their table (aggregate.py) *)

Zero == Rat(0, 1)

\* the builtin sum over floats
RECURSIVE sum(_)
sum(items) == IF items = <<>> THEN Zero ELSE RatAdd(sum(SubSeq(items, 1, Len(items) - 1)), items[Len(items)])

\* the builtin max and min, for a non-empty sequence
max(items) == CHOOSE x \in {items[i] : i \in 1..Len(items)} :
                  \A i \in 1..Len(items) : ~ RatLess(x, items[i])
min(items) == CHOOSE x \in {items[i] : i \in 1..Len(items)} :
                  \A i \in 1..Len(items) : ~ RatLess(items[i], x)

first(iterable) == IF iterable = <<>> THEN None ELSE iterable[1]

\* last, for a non-empty iterable (an empty one leaves result unbound)
last(iterable) == iterable[Len(iterable)]

\* a mean without a value for the empty sequence
mean_NoneOnEmpty(items) == IF items = <<>> THEN None ELSE RatDiv(sum(items), Rat(Len(items), 1))

mean(items) == IF items = <<>> THEN Zero ELSE RatDiv(sum(items), Rat(Len(items), 1))

\* the largest r with r * r <= n
RECURSIVE IntSqrtFrom(_, _)
IntSqrtFrom(n, r) == IF (r + 1) * (r + 1) > n THEN r ELSE IntSqrtFrom(n, r + 1)

\* x ** 0.5: exact when x is the square of a rational, and the symbolic
\* root <<"sqrt", n, d>> otherwise
Sqrt(x) ==
    LET rn == IntSqrtFrom(x[1], 0)
        rd == IntSqrtFrom(x[2], 0)
    IN  IF rn * rn = x[1] /\ rd * rd = x[2] THEN Rat(rn, rd) ELSE <<"sqrt", x[1], x[2]>>

RECURSIVE SqDiff(_, _)
SqDiff(items, m) ==
    IF items = <<>> THEN Zero
    ELSE LET d == RatSub(items[Len(items)], m)
         IN  RatAdd(SqDiff(SubSeq(items, 1, Len(items) - 1), m), RatMul(d, d))

\* the sample variance sqdiff / (len(items) - 1), for two items or more
Variance(items) == RatDiv(SqDiff(items, mean(items)), Rat(Len(items) - 1, 1))

mean_sd(items) ==
    IF Len(items) < 2 THEN <<mean(items), Zero>>
    ELSE <<mean(items), Sqrt(Variance(items))>>

\* sd / (len(items) ** 0.5), as the root of the variance over len(items)
StdErr(items) ==
    IF Len(items) < 2 THEN Zero ELSE Sqrt(RatDiv(Variance(items), Rat(Len(items), 1)))

mean_err(items) ==
    IF items = <<>> THEN <<Zero, Zero>> ELSE <<mean(items), StdErr(items)>>

\* x * 3.919927969, kept symbolic for a non-zero x
Times95(x) == IF x = Zero THEN Zero ELSE <<"*3.919927969", x>>

mean_95ci(items) ==
    IF items = <<>> THEN <<Zero, Zero>> ELSE <<mean(items), Times95(StdErr(items))>>

\* sorted(items)
RECURSIVE sorted(_)
sorted(items) ==
    IF items = <<>> THEN <<>>
    ELSE LET k == CHOOSE i \in 1..Len(items) :
                      /\ \A j \in 1..Len(items) : ~ RatLess(items[j], items[i])
                      /\ \A j \in 1..(i - 1) : RatLess(items[i], items[j])
         IN  <<items[k]>> \o sorted([j \in 1..(Len(items) - 1) |-> IF j < k THEN items[j] ELSE items[j + 1]])

\* a median that takes the middle of the items as they come
median_Unsorted(items) ==
    LET n == Len(items)
        mid == n \div 2
    IN  IF n = 0 THEN None
        ELSE IF n % 2 = 0 THEN RatDiv(RatAdd(items[mid], items[mid + 1]), Rat(2, 1))
        ELSE items[mid + 1]

median(items) ==
    LET n == Len(items)
        mid == n \div 2
        s == sorted(items)
    IN  IF n = 0 THEN None
        ELSE IF n % 2 = 0 THEN RatDiv(RatAdd(s[mid], s[mid + 1]), Rat(2, 1))
        ELSE s[mid + 1]

\* the keys of the table functions
functions == {"max", "mean", "mean_sd", "mean_err", "mean_95ci", "median", "min", "sum", "first", "last"}

\* functions[name](items), for a non-empty sequence of floats
Call(name, items) ==
    CASE name = "max" -> max(items)
      [] name = "mean" -> mean(items)
      [] name = "mean_sd" -> mean_sd(items)
      [] name = "mean_err" -> mean_err(items)
      [] name = "mean_95ci" -> mean_95ci(items)
      [] name = "median" -> median(items)
      [] name = "min" -> min(items)
      [] name = "sum" -> sum(items)
      [] name = "first" -> first(items)
      [] name = "last" -> last(items)

\* hasattr(func, "argout")
HasArgout(name) == name \in {"mean_95ci", "mean_err", "mean_sd"}

\* func.argout
argout(name) ==
    CASE name = "mean_95ci" -> << <<>>, <<"9", "5", "c", "i">> >>
      [] name = "mean_err" -> << <<>>, <<"e", "r", "r">> >>
      [] name = "mean_sd" -> << <<>>, <<"s", "d">> >>

\* hasattr(result, "__iter__"): the tuples the mean_* functions return
ReturnsTuple(name) == name \in {"mean_95ci", "mean_err", "mean_sd"}

\* the values of the results of func over the given sequences, tuples
\* spliced in place (flatten over the generator in column mode, row.extend /
\* row.append in multiple mode)
RECURSIVE Flattened(_, _)
Flattened(name, seqs) ==
    IF seqs = <<>> THEN <<>>
    ELSE LET r == Call(name, seqs[Len(seqs)])
         IN  Flattened(name, SubSeq(seqs, 1, Len(seqs) - 1)) \o (IF ReturnsTuple(name) THEN r ELSE <<r>>)

\* the header names, each expanded through func.argout when there is one
\* a header that is printed as it was read, whatever the function
ExpandHeaders_Unchanged(name, line) == line

RECURSIVE ExpandHeaders(_, _)
ExpandHeaders(name, line) ==
    IF ~ HasArgout(name) THEN line
    ELSE IF line = <<>> THEN <<>>
    ELSE LET header == line[Len(line)]
             args == argout(name)
         IN  ExpandHeaders(name, SubSeq(line, 1, Len(line) - 1)) \o
                 [k \in 1..Len(args) |->
                     IF args[k] # <<>> THEN header \o <<"_">> \o args[k] ELSE header]

-----------------------------------------------------------------------------
(* TableWithHeaderIterator *)

\* the fields arguments tried: no selection, one column, two columns reordered
\* (0-based, as qplot passes them)
FieldChoices == { <<>>, <<0>>, <<1, 0>> }

Delimiters == { <<TAB>>, None }

\* what TableWithHeaderIterator.__init__ keeps of its arguments
IterInit(delimiter, every, fields, strip, date) ==
    [ delimiter |-> delimiter,
      every |-> IF every < 1 THEN 1 ELSE every,
      fields |-> fields,
      strip |-> strip,
      first_column_is_date |-> date ]

\* chars_to_strip
CharsToStrip(strip) == IF strip THEN {SP, TAB, CR, NL} ELSE {CR, NL}

\* line.strip(chars_to_strip).split(self.delimiter)
IterSplit(line) == Split(Strip(line, CharsToStrip(it.strip)), it.delimiter)

\* values, the typed row of parts
IterValues(parts) ==
    IF ~ it.first_column_is_date
    THEN [i \in 1..Len(parts) |-> lenient_float(parts[i])]
    ELSE [i \in 1..Len(parts) |-> IF i = 1 THEN parts[1] ELSE lenient_float(parts[i])]

\* any(value is None for value in values)
AnyNone(values) == \E i \in 1..Len(values) : values[i] = None

\* a header test that forgets self.seen_header
IterIsHeader_EveryTime(values) == AnyNone(values)

\* the test that takes a row for the header
IterIsHeader(values) == ~ seen_header /\ AnyNone(values)

\* a test that keeps every data row
IterKeeps_Always == TRUE

\* every <= 1 or line_number % every == 0
IterKeeps == it.every <= 1 \/ line_number % it.every = 0

\* One pass of the loop of __iter__ over the next line of self.fp
IterLine(line) ==
    /\ it_pc = "iter"
    /\ Len(it_log) < MaxIterLines
    /\ UNCHANGED <<it, aggVars, groupVars, parseVars, funcVars, moreVars>>
    /\ LET split == IterSplit(line)
       IN  IF it.fields # <<>> /\ ~ SublistOK(split, it.fields)
           THEN /\ it_pc' = "IndexError"
                /\ UNCHANGED <<seen_header, headers, line_number, yielded, it_log>>
           ELSE LET parts == IF it.fields # <<>> THEN sublist(split, it.fields) ELSE split
                    values == IterValues(parts)
                IN  /\ it_pc' = "iter"
                    /\ IF parts = <<>>
                       THEN /\ it_log' = Append(it_log, [what |-> "skip", parts |-> parts, values |-> <<>>])
                            /\ UNCHANGED <<seen_header, headers, line_number, yielded>>
                       ELSE IF IterIsHeader(values)
                       THEN /\ headers' = parts
                            /\ seen_header' = TRUE
                            /\ it_log' = Append(it_log, [what |-> "header", parts |-> parts, values |-> values])
                            /\ UNCHANGED <<line_number, yielded>>
                       ELSE /\ yielded' = IF IterKeeps THEN Append(yielded, values) ELSE yielded
                            /\ line_number' = line_number + 1
                            /\ it_log' = Append(it_log,
                                   [what |-> IF IterKeeps THEN "yield" ELSE "drop",
                                    parts |-> parts, values |-> values])
                            /\ UNCHANGED <<seen_header, headers>>

\* self.fp is exhausted: the loop ends
IterEnd ==
    /\ it_pc = "iter"
    /\ it_pc' = "done"
    /\ UNCHANGED <<it, seen_header, headers, line_number, yielded, it_log, aggVars, groupVars, parseVars, funcVars, moreVars>>

OptIdle ==
    /\ o_tool = "aggregate"
    /\ o_argv = [d |-> <<"None">>, D |-> <<"None">>]
    /\ o_options = [in_delimiter |-> <<"None">>, out_delimiter |-> <<"None">>]
    /\ o_fields = <<>>
    /\ o_line = <<>>
    /\ o_pc = "idle"

StreamIdle ==
    /\ s_mode = "column"
    /\ s_files = <<>>
    /\ s_held = {}
    /\ s_current = 0
    /\ s_pc = "idle"

RemapIdle ==
    /\ r_options = [missing_action |-> "ignore", fields |-> <<>>]
    /\ r_mapping = <<>>
    /\ r_args = <<>>
    /\ r_arg = 0
    /\ r_read = <<>>
    /\ r_stdout = <<>>
    /\ r_stderr = <<>>
    /\ r_pc = "idle"

MoreIdle == OptIdle /\ StreamIdle /\ RemapIdle

GroupIdle ==
    /\ g_options = [unique |-> FALSE, fields |-> <<>>, strip |-> FALSE]
    /\ g_args = <<>>
    /\ g_arg = 0
    /\ keys_to_values = <<>>
    /\ g_read = <<>>
    /\ g_printed = 0
    /\ g_stdout = <<>>
    /\ g_pc = "idle"

ParseIdle ==
    /\ p_spec = <<>>
    /\ p_parts = <<>>
    /\ p_result = <<>>
    /\ p_pc = "idle"

FuncIdle ==
    /\ f_name = "mean"
    /\ f_items = <<>>
    /\ f_result = <<"None">>
    /\ f_pc = "idle"

AggIdle ==
    /\ options = [function |-> "mean", fields |-> <<>>, strip |-> FALSE]
    /\ lens = <<>>
    /\ idx = 0
    /\ consumed = <<>>
    /\ data_started = FALSE
    /\ result = <<>>
    /\ rows = <<>>
    /\ lines = <<>>
    /\ stdout = <<>>
    /\ pc = "idle"

IterIdle ==
    /\ it = IterInit(<<TAB>>, 1, <<>>, FALSE, FALSE)
    /\ seen_header = FALSE
    /\ headers = None
    /\ line_number = 0
    /\ yielded = <<>>
    /\ it_pc = "idle"
    /\ it_log = <<>>

InitIter ==
    /\ \E delimiter \in Delimiters, every \in 0..MaxEvery, fields \in FieldChoices,
          strip \in BOOLEAN, date \in BOOLEAN :
            it = IterInit(delimiter, every, fields, strip, date)
    /\ seen_header = FALSE
    /\ headers = None
    /\ line_number = 0
    /\ yielded = <<>>
    /\ it_pc = "iter"
    /\ it_log = <<>>
    /\ AggIdle
    /\ GroupIdle
    /\ ParseIdle
    /\ FuncIdle
    /\ MoreIdle

NextIter == (\E line \in Lines : IterLine(line)) \/ IterEnd

SpecIter == InitIter /\ [][NextIter]_vars

-----------------------------------------------------------------------------
(* aggregate.py: what both modes share *)

\* the values of -f tried (1-based, as parse_index_specification returns them)
FieldOptions == { <<>>, <<1>>, <<2, 1>> }

\* col_idxs: [f - 1 for f in options.fields], None (written <<>>) without -f
ColIdxs == [k \in 1..Len(options.fields) |-> options.fields[k] - 1]

\* [float(x) for x in line] does not raise ValueError
CanFloatAll(line) == \A i \in 1..Len(line) : CanFloat(line[i])

\* [float(x) for x in line]
FloatAll(line) == [i \in 1..Len(line) |-> float(line[i])]

HeaderLine(cells, src) == [kind |-> "header", cells |-> cells, src |-> src]
DataLine(cells, src) == [kind |-> "data", cells |-> cells, src |-> src]

\* the number of lines read so far from all the streams
RECURSIVE Total(_)
Total(counts) == IF counts = <<>> THEN 0 ELSE counts[Len(counts)] + Total(SubSeq(counts, 1, Len(counts) - 1))

InitOptions ==
    \E function \in functions, fields \in FieldOptions, strip \in BOOLEAN :
        options = [function |-> function, fields |-> fields, strip |-> strip]

-----------------------------------------------------------------------------
(* aggregate.py: column mode *)

\* line.strip(chars_to_strip).split(delim), delim the default TAB
ColSplit(line) == SplitOn(Strip(line, CharsToStrip(options.strip)), TAB)

\* accumulators that put each new value in front of the earlier ones
Accumulate_Prepend(res, line) ==
    LET diff == Len(line) - Len(res)
        grown == IF Len(res) < Len(line)
                 THEN IF res = <<>>
                      THEN [j \in 1..diff |-> <<>>]
                      ELSE res \o [j \in 1..diff |-> <<Zero>>]
                 ELSE res
    IN  [j \in 1..Len(grown) |-> IF j <= Len(line) THEN <<line[j]>> \o grown[j] ELSE grown[j]]

\* the accumulators after one more data row
Accumulate(res, line) ==
    LET diff == Len(line) - Len(res)
        grown == IF Len(res) < Len(line)
                 THEN IF res = <<>>
                      THEN [j \in 1..diff |-> <<>>]
                      ELSE res \o [j \in 1..diff |-> <<Zero>>]
                 ELSE res
    IN  [j \in 1..Len(grown) |-> IF j <= Len(line) THEN Append(grown[j], line[j]) ELSE grown[j]]

\* a header test that forgets first_file
PrintsHeader_AnyFile(first_file) == TRUE

\* whether a header line of this stream is printed
PrintsHeader(first_file) == first_file

\* One pass of the loop of process_files_column_single over the next line of fp
ColLine(line) ==
    /\ pc = "run"
    /\ Total(consumed) < MaxLines
    /\ consumed' = [consumed EXCEPT ![idx] = @ + 1]
    /\ UNCHANGED <<options, lens, idx, lines, iterVars, groupVars, parseVars, funcVars, moreVars>>
    /\ LET split == ColSplit(line)
       IN  IF ColIdxs # <<>> /\ ~ SublistOK(split, ColIdxs)
           THEN /\ pc' = "IndexError"
                /\ UNCHANGED <<data_started, result, rows, stdout>>
           ELSE LET cells == IF ColIdxs # <<>> THEN sublist(split, ColIdxs) ELSE split
                IN  IF ~ data_started /\ ~ only_numbers(cells)
                    THEN /\ stdout' = IF PrintsHeader(idx = 1)
                                      THEN Append(stdout, HeaderLine(ExpandHeaders(options.function, cells), idx))
                                      ELSE stdout
                         /\ UNCHANGED <<data_started, result, rows, pc>>
                    ELSE IF ~ CanFloatAll(cells)
                    THEN /\ pc' = "ValueError"
                         /\ UNCHANGED <<data_started, result, rows, stdout>>
                    ELSE /\ data_started' = TRUE
                         /\ result' = Accumulate(result, FloatAll(cells))
                         /\ rows' = Append(rows, FloatAll(cells))
                         /\ UNCHANGED <<stdout, pc>>

\* fp is exhausted: process_files_column_single prints the output row and
\* process_files_column goes on to the next file
ColEnd ==
    /\ pc = "run"
    /\ stdout' = Append(stdout, DataLine(Flattened(options.function, result), idx))
    /\ IF idx < NStreams
       THEN /\ idx' = idx + 1
            /\ pc' = "run"
       ELSE /\ idx' = idx
            /\ pc' = "done"
    /\ data_started' = FALSE
    /\ result' = <<>>
    /\ rows' = <<>>
    /\ UNCHANGED <<options, lens, consumed, lines, iterVars, groupVars, parseVars, funcVars, moreVars>>

InitColumn ==
    /\ InitOptions
    /\ lens = <<>>
    /\ idx = 1
    /\ consumed = [k \in 1..NStreams |-> 0]
    /\ data_started = FALSE
    /\ result = <<>>
    /\ rows = <<>>
    /\ lines = <<>>
    /\ stdout = <<>>
    /\ pc = "run"
    /\ IterIdle
    /\ GroupIdle
    /\ ParseIdle
    /\ FuncIdle
    /\ MoreIdle

NextColumn == (\E line \in Lines : ColLine(line)) \/ ColEnd

SpecColumn == InitColumn /\ [][NextColumn]_vars

-----------------------------------------------------------------------------
(* aggregate.py: multiple mode *)

\* a split that strips as options.strip says, the way column mode does
MulSplit_HonoursStrip(line) == SplitOn(Strip(line, CharsToStrip(options.strip)), TAB)

\* line.strip().split(delim), delim the default TAB
MulSplit(line) == SplitOn(Strip(line, Whitespace), TAB)

\* a header test that looks at the first stream's row only
MulIsHeader_FirstOnly(ls) == ~ only_numbers(ls[1])

\* any(not only_numbers(line) for line in lines), with the streams 1..n of the round
MulIsHeader(ls) == \E k \in 1..Len(ls) : ~ only_numbers(ls[k])

\* the shortest of the rows
MinWidth(ls) ==
    CHOOSE w \in {Len(ls[k]) : k \in 1..Len(ls)} : \A k \in 1..Len(ls) : w <= Len(ls[k])

\* a zip that takes the rows in reverse stream order
Zip_Reversed(ls) ==
    IF ls = <<>> THEN <<>>
    ELSE [j \in 1..MinWidth(ls) |-> [k \in 1..Len(ls) |-> ls[Len(ls) + 1 - k][j]]]

\* zip(*lines): per position, the items of the rows in stream order, up to the shortest row
Zip(ls) ==
    IF ls = <<>> THEN <<>>
    ELSE [j \in 1..MinWidth(ls) |-> [k \in 1..Len(ls) |-> ls[k][j]]]

\* the first of the opened streams that has no line left
FirstExhausted == CHOOSE k \in 1..NStreams :
                      consumed[k] = lens[k] /\ \A j \in 1..(k - 1) : consumed[j] < lens[j]

\* One pass of the loop of process_files_multiple: zip has taken the next
\* line of every stream
MulRound(ls) ==
    /\ pc = "run"
    /\ \A k \in 1..NStreams : consumed[k] < lens[k]
    /\ consumed' = [k \in 1..NStreams |-> consumed[k] + 1]
    /\ UNCHANGED <<options, lens, idx, result, rows, iterVars, groupVars, parseVars, funcVars, moreVars>>
    /\ LET split == [k \in 1..NStreams |-> MulSplit(ls[k])]
       IN  IF ColIdxs # <<>> /\ \E k \in 1..NStreams : ~ SublistOK(split[k], ColIdxs)
           THEN /\ pc' = "IndexError"
                /\ lines' = split
                /\ UNCHANGED <<data_started, stdout>>
           ELSE LET cells == IF ColIdxs # <<>>
                             THEN [k \in 1..NStreams |-> sublist(split[k], ColIdxs)]
                             ELSE split
                IN  IF ~ data_started /\ MulIsHeader(cells)
                    THEN /\ stdout' = Append(stdout, HeaderLine(ExpandHeaders(options.function, cells[1]), 1))
                         /\ lines' = cells
                         /\ UNCHANGED <<data_started, pc>>
                    ELSE IF \E k \in 1..NStreams : ~ CanFloatAll(cells[k])
                    THEN /\ pc' = "ValueError"
                         /\ data_started' = TRUE
                         /\ lines' = cells
                         /\ UNCHANGED stdout
                    ELSE /\ data_started' = TRUE
                         /\ lines' = [k \in 1..NStreams |-> FloatAll(cells[k])]
                         /\ stdout' = Append(stdout,
                                DataLine(Flattened(options.function,
                                                   Zip([k \in 1..NStreams |-> FloatAll(cells[k])])), 0))
                         /\ UNCHANGED pc

\* zip finds a stream exhausted (having taken a line from every stream before
\* it) and the loop ends
MulEnd ==
    /\ pc = "run"
    /\ \E k \in 1..NStreams : consumed[k] = lens[k]
    /\ consumed' = [k \in 1..NStreams |-> IF k < FirstExhausted THEN consumed[k] + 1 ELSE consumed[k]]
    /\ pc' = "done"
    /\ UNCHANGED <<options, lens, idx, data_started, result, rows, lines, stdout, iterVars, groupVars, parseVars, funcVars, moreVars>>

InitMultiple ==
    /\ InitOptions
    /\ lens \in {l \in [1..NStreams -> 0..MaxLines] : Total(l) <= MaxLines}
    /\ idx = 0
    /\ consumed = [k \in 1..NStreams |-> 0]
    /\ data_started = FALSE
    /\ result = <<>>
    /\ rows = <<>>
    /\ lines = <<>>
    /\ stdout = <<>>
    /\ pc = "run"
    /\ IterIdle
    /\ GroupIdle
    /\ ParseIdle
    /\ FuncIdle
    /\ MoreIdle

NextMultiple == (\E ls \in [1..NStreams -> Lines] : MulRound(ls)) \/ MulEnd

SpecMultiple == InitMultiple /\ [][NextMultiple]_vars

-----------------------------------------------------------------------------
(* groupby.py *)

\* the most lines the input files of one groupby run hold together
MaxGroupLines == 3

\* main's args tried: no file named (standard input, "-"), and two files
GroupArgs == { <<"-">>, <<"f1", "f2">> }

\* the values of -f tried: none, and the second column as the key with the
\* first column as its value
GroupFieldOptions == { <<>>, <<2, 1>> }

\* col_idxs: [f - 1 for f in options.fields], None (written <<>>) without -f
GroupColIdxs == [k \in 1..Len(g_options.fields) |-> g_options.fields[k] - 1]

\* line.strip(chars_to_strip).split(delim), delim the default TAB
GroupSplit(line) == SplitOn(Strip(line, CharsToStrip(g_options.strip)), TAB)

\* a map that process_file keeps from its previous call
FreshMap_Kept(previous) == previous

\* the map process_file makes when it starts: defaultdict(set) or defaultdict(list), empty
FreshMap(previous) == <<>>

\* the bucket a defaultdict makes for a key it does not hold: set() or list()
EmptyBucket(unique) == IF unique THEN {} ELSE <<>>

\* the place of key among the entries of the map d, 0 when d does not hold it
Position(d, key) ==
    IF \E i \in 1..Len(d) : d[i].key = key
    THEN CHOOSE i \in 1..Len(d) : d[i].key = key
    ELSE 0

\* an extend that puts the new values in front of the bucket
Extend_InFront(bucket, new) == new \o bucket

\* list.extend
Extend(bucket, new) == bucket \o new

\* set.update
Update(bucket, new) == bucket \cup {new[i] : i \in 1..Len(new)}

\* a store that moves the entry of a key seen again to the end of the map
Store_MoveToEnd(d, parts, unique) ==
    LET key == parts[1]
        k == Position(d, key)
        old == IF k = 0 THEN EmptyBucket(unique) ELSE d[k].values
        others == IF k = 0 THEN d
                  ELSE [j \in 1..(Len(d) - 1) |-> IF j < k THEN d[j] ELSE d[j + 1]]
    IN  Append(others, [key |-> key,
                        values |-> IF unique THEN Update(old, Tail(parts)) ELSE Extend(old, Tail(parts))])

\* keys_to_values after keys_to_values[parts[0]].update(parts[1:]) or
\* keys_to_values[parts[0]].extend(parts[1:]); a dict keeps its keys in the
\* order of their insertion
Store(d, parts, unique) ==
    LET key == parts[1]
        held == IF Position(d, key) = 0
                THEN Append(d, [key |-> key, values |-> EmptyBucket(unique)])
                ELSE d
        k == Position(held, key)
    IN  [held EXCEPT ![k].values = IF unique THEN Update(@, Tail(parts)) ELSE Extend(@, Tail(parts))]

\* the orders in which iterating the set S may give its elements
Orderings(S) ==
    {s \in [1..Cardinality(S) -> S] : \A i, j \in 1..Cardinality(S) : i # j => s[i] # s[j]}

\* the orders in which chain([key], values) may give the values of a bucket:
\* a list in its own order, a set in any order
Iterations(bucket, unique) == IF unique THEN Orderings(bucket) ELSE {bucket}

GroupLineOut(cells, src) == [cells |-> cells, src |-> src]

\* the number of lines read so far from all the files
GroupTotal == Total([k \in 1..Len(g_read) |-> Len(g_read[k])])

\* One pass of the loop of process_file over the next line of the file
GroupLine(line) ==
    /\ g_pc = "read"
    /\ GroupTotal < MaxGroupLines
    /\ g_read' = [g_read EXCEPT ![g_arg] = Append(@, line)]
    /\ UNCHANGED <<g_options, g_args, g_arg, g_printed, g_stdout, iterVars, aggVars, parseVars, funcVars, moreVars>>
    /\ LET split == GroupSplit(line)
       IN  IF GroupColIdxs # <<>> /\ ~ SublistOK(split, GroupColIdxs)
           THEN /\ g_pc' = "IndexError"
                /\ UNCHANGED keys_to_values
           ELSE LET parts == IF GroupColIdxs # <<>> THEN sublist(split, GroupColIdxs) ELSE split
                IN  /\ g_pc' = "read"
                    /\ keys_to_values' = IF parts = <<>>
                                         THEN keys_to_values
                                         ELSE Store(keys_to_values, parts, g_options.unique)

\* the file is exhausted: the loop over its lines ends
GroupEOF ==
    /\ g_pc = "read"
    /\ g_pc' = "print"
    /\ UNCHANGED <<g_options, g_args, g_arg, keys_to_values, g_read, g_printed, g_stdout,
                   iterVars, aggVars, parseVars, funcVars, moreVars>>

\* One pass of the loop that prints the key-value pairs
GroupPrint ==
    /\ g_pc = "print"
    /\ g_printed < Len(keys_to_values)
    /\ LET entry == keys_to_values[g_printed + 1]
       IN  \E values \in Iterations(entry.values, g_options.unique) :
               g_stdout' = Append(g_stdout, GroupLineOut(<<entry.key>> \o values, g_arg))
    /\ g_printed' = g_printed + 1
    /\ UNCHANGED <<g_options, g_args, g_arg, keys_to_values, g_read, g_pc,
                   iterVars, aggVars, parseVars, funcVars, moreVars>>

\* process_file returns; main's loop calls it for the next of args, if any
GroupReturn ==
    /\ g_pc = "print"
    /\ g_printed = Len(keys_to_values)
    /\ IF g_arg < Len(g_args)
       THEN /\ g_arg' = g_arg + 1
            /\ keys_to_values' = FreshMap(keys_to_values)
            /\ g_printed' = 0
            /\ g_pc' = "read"
       ELSE /\ g_pc' = "done"
            /\ UNCHANGED <<g_arg, keys_to_values, g_printed>>
    /\ UNCHANGED <<g_options, g_args, g_read, g_stdout, iterVars, aggVars, parseVars, funcVars, moreVars>>

InitGroup ==
    /\ \E unique \in BOOLEAN, fields \in GroupFieldOptions, strip \in BOOLEAN :
           g_options = [unique |-> unique, fields |-> fields, strip |-> strip]
    /\ g_args \in GroupArgs
    /\ g_arg = 1
    /\ keys_to_values = FreshMap(<<>>)
    /\ g_read = [k \in 1..Len(g_args) |-> <<>>]
    /\ g_printed = 0
    /\ g_stdout = <<>>
    /\ g_pc = "read"
    /\ IterIdle
    /\ AggIdle
    /\ ParseIdle
    /\ FuncIdle
    /\ MoreIdle

NextGroup == (\E line \in Lines : GroupLine(line)) \/ GroupEOF \/ GroupPrint \/ GroupReturn

SpecGroup == InitGroup /\ [][NextGroup]_vars

-----------------------------------------------------------------------------
(* parse_index_specification (utils.py) *)

\* the most characters of an index specification
MaxSpecLen == 5

\* the characters an index specification is made of here
SpecChars == {"0", "1", "2", ",", "-", "x", SP}

\* the index specifications tried
SpecStrings == UNION {[1..n -> SpecChars] : n \in 0..MaxSpecLen}

\* an int() that reads a text without digits as 0
CanInt_EmptyIsZero(text) ==
    LET s == Strip(text, Whitespace)
        digits == IF s # <<>> /\ s[1] = "-" THEN Tail(s) ELSE s
    IN  \A i \in 1..Len(digits) : digits[i] \in Digits

\* int(text) does not raise ValueError: over the model's characters, the text
\* with surrounding whitespace removed is an optional minus sign and a
\* non-empty run of digits
CanInt(text) ==
    LET s == Strip(text, Whitespace)
        digits == IF s # <<>> /\ s[1] = "-" THEN Tail(s) ELSE s
    IN  digits # <<>> /\ \A i \in 1..Len(digits) : digits[i] \in Digits

\* int(text), for a text int() accepts
int(text) ==
    LET s == Strip(text, Whitespace)
    IN  IF s # <<>> /\ s[1] = "-" THEN 0 - DecimalValue(Tail(s)) ELSE DecimalValue(s)

\* sep in s
Contains(s, sep) == \E i \in 1..Len(s) : s[i] = sep

\* s.split(sep, 1), for an s that contains sep
SplitOnce(s, sep) ==
    LET i == CHOOSE k \in 1..Len(s) : s[k] = sep /\ \A j \in 1..(k - 1) : s[j] # sep
    IN  <<SubSeq(s, 1, i - 1), SubSeq(s, i + 1, Len(s))>>

\* a range that counts down from stop - 1 to start
range_Descending(start, stop) == [k \in 1..(stop - start) |-> stop - k]

\* range(start, stop), as a list: empty when stop <= start
range(start, stop) == [k \in 1..(stop - start) |-> start + k - 1]

\* One pass of the loop of parse_index_specification over the next part
ParsePart ==
    /\ p_pc = "loop"
    /\ p_parts # <<>>
    /\ p_parts' = Tail(p_parts)
    /\ UNCHANGED <<p_spec, iterVars, aggVars, groupVars, funcVars, moreVars>>
    /\ LET part == Strip(Head(p_parts), Whitespace)
       IN  IF Contains(part, "-")
           THEN LET pieces == SplitOnce(part, "-")
                IN  IF CanInt(pieces[1]) /\ CanInt(pieces[2])
                    THEN /\ p_result' = p_result \o range(int(pieces[1]), int(pieces[2]) + 1)
                         /\ p_pc' = "loop"
                    ELSE /\ p_pc' = "ValueError"
                         /\ UNCHANGED p_result
           ELSE IF CanInt(part)
                THEN /\ p_result' = Append(p_result, int(part))
                     /\ p_pc' = "loop"
                ELSE /\ p_pc' = "ValueError"
                     /\ UNCHANGED p_result

\* the parts are exhausted: return result
ParseReturn ==
    /\ p_pc = "loop"
    /\ p_parts = <<>>
    /\ p_pc' = "returned"
    /\ UNCHANGED <<p_spec, p_parts, p_result, iterVars, aggVars, groupVars, funcVars, moreVars>>

InitParse ==
    /\ p_spec \in SpecStrings
    /\ p_parts = SplitOn(p_spec, ",")
    /\ p_result = <<>>
    /\ p_pc = "loop"
    /\ IterIdle
    /\ AggIdle
    /\ GroupIdle
    /\ FuncIdle
    /\ MoreIdle

NextParse == ParsePart \/ ParseReturn

SpecParse == InitParse /\ [][NextParse]_vars

-----------------------------------------------------------------------------
(* One call of an aggregator function of the table functions *)

\* the most items of the sequence an aggregator is called with
MaxItems == 4

\* the floats the sequences are made of
FuncValues == {Rat(1, 1), Rat(2, 1), Rat(3, 1), Rat(4, 1)}

\* the sequences tried
FuncItems == UNION {[1..n -> FuncValues] : n \in 0..MaxItems}

\* the exception functions[name](items) ends with, "" when it returns: on an
\* empty sequence last reaches its return with result unbound, and the
\* builtin max and min raise ValueError
Raises(name, items) ==
    IF items # <<>> THEN ""
    ELSE CASE name = "last" -> "UnboundLocalError"
           [] name \in {"max", "min"} -> "ValueError"
           [] OTHER -> ""

\* the caller's sequence after the call: no aggregator changes its argument
\* (median sorts a copy, items = sorted(items))
ArgumentAfter(name, items) == items

\* the call functions[f_name](f_items)
FuncCall ==
    /\ f_pc = "call"
    /\ f_items' = ArgumentAfter(f_name, f_items)
    /\ IF Raises(f_name, f_items) # ""
       THEN /\ f_pc' = Raises(f_name, f_items)
            /\ UNCHANGED f_result
       ELSE /\ f_pc' = "returned"
            /\ f_result' = Call(f_name, f_items)
    /\ UNCHANGED <<f_name, iterVars, aggVars, groupVars, parseVars, moreVars>>

InitFunc ==
    /\ f_name \in functions
    /\ f_items \in FuncItems
    /\ f_result = None
    /\ f_pc = "call"
    /\ IterIdle
    /\ AggIdle
    /\ GroupIdle
    /\ ParseIdle
    /\ MoreIdle

NextFunc == FuncCall

SpecFunc == InitFunc /\ [][NextFunc]_vars

-----------------------------------------------------------------------------
(* The output delimiter of aggregate.py and groupby.py *)

\* what the command line gives to -d or -D: nothing (None) or one character
DelimiterArgs == { None, <<TAB>>, <<",">>, <<";">> }

\* the rows of fields printed
RowsToPrint == { << <<"a">> >>, << <<"a">>, <<"1">> >>, << <<"a">>, <<"1">>, <<"2">> >>, << <<>>, <<"1">> >> }

\* the default of -d in both tools
DefaultInDelimiter(tool) == <<TAB>>

\* a -D that defaults to TAB in both tools
DefaultOutDelimiter_Tab(tool) == <<TAB>>

\* the default of -D: TAB in aggregate.py, None in groupby.py
DefaultOutDelimiter(tool) == IF tool = "aggregate" THEN <<TAB>> ELSE None

\* sep.join(fields), for a one-character sep
RECURSIVE Join(_, _)
Join(sep, fields) ==
    IF fields = <<>> THEN <<>>
    ELSE IF Len(fields) = 1 THEN fields[1]
    ELSE Join(sep, SubSeq(fields, 1, Len(fields) - 1)) \o sep \o fields[Len(fields)]

\* parser.parse_args(): an option given takes its value, another its default
OptParse ==
    /\ o_pc = "parse"
    /\ o_options' = [ in_delimiter |-> IF o_argv.d = None THEN DefaultInDelimiter(o_tool) ELSE o_argv.d,
                      out_delimiter |-> IF o_argv.D = None THEN DefaultOutDelimiter(o_tool) ELSE o_argv.D ]
    /\ o_pc' = "main"
    /\ UNCHANGED <<o_tool, o_argv, o_fields, o_line,
                   iterVars, aggVars, groupVars, parseVars, funcVars, streamVars, remapVars>>

\* main, up to the processing of the files: groupby.py replaces an
\* out_delimiter of None by the in_delimiter, aggregate.py leaves the options
\* as they were parsed
OptMain ==
    /\ o_pc = "main"
    /\ o_options' = IF o_tool = "groupby" /\ o_options.out_delimiter = None
                    THEN [o_options EXCEPT !.out_delimiter = o_options.in_delimiter]
                    ELSE o_options
    /\ o_pc' = "print"
    /\ UNCHANGED <<o_tool, o_argv, o_fields, o_line,
                   iterVars, aggVars, groupVars, parseVars, funcVars, streamVars, remapVars>>

\* print(join(...)), join being options.out_delimiter.join
OptPrint ==
    /\ o_pc = "print"
    /\ o_line' = Join(o_options.out_delimiter, o_fields)
    /\ o_pc' = "done"
    /\ UNCHANGED <<o_tool, o_argv, o_options, o_fields,
                   iterVars, aggVars, groupVars, parseVars, funcVars, streamVars, remapVars>>

InitOpt ==
    /\ o_tool \in {"aggregate", "groupby"}
    /\ o_argv \in [d : DelimiterArgs, D : DelimiterArgs]
    /\ o_options = [in_delimiter |-> None, out_delimiter |-> None]
    /\ o_fields \in RowsToPrint
    /\ o_line = <<>>
    /\ o_pc = "parse"
    /\ IterIdle
    /\ AggIdle
    /\ GroupIdle
    /\ ParseIdle
    /\ FuncIdle
    /\ StreamIdle
    /\ RemapIdle

NextOpt == OptParse \/ OptMain \/ OptPrint

SpecOpt == InitOpt /\ [][NextOpt]_vars

-----------------------------------------------------------------------------
(* The input streams of a run of aggregate.py or groupby.py *)

\* the most lines read from one input stream
MaxStreamLines == 2

StreamModes == {"column", "multiple", "groupby"}

\* the files open_anything has opened and nothing has closed
OpenFiles == {k \in 1..NStreams : s_files[k].status = "open"}

\* open_anything(filename) opens the next input file: in column mode and in
\* groupby as the argument of the call that reads it, in multiple mode as
\* the next element of the list that is handed to zip
StreamOpen ==
    /\ s_pc = "start"
    /\ s_current < NStreams
    /\ s_current' = s_current + 1
    /\ s_files' = [s_files EXCEPT ![s_current + 1].status = "open"]
    /\ s_held' = s_held \cup {s_current + 1}
    /\ s_pc' = IF s_mode = "multiple" /\ s_current + 1 < NStreams THEN "start" ELSE "run"
    /\ UNCHANGED <<s_mode, iterVars, aggVars, groupVars, parseVars, funcVars, optVars, remapVars>>

\* open_anything(filename) raises: the file cannot be opened
StreamOpenFails ==
    /\ s_pc = "start"
    /\ s_current < NStreams
    /\ s_pc' = "error"
    /\ UNCHANGED <<s_mode, s_files, s_held, s_current,
                   iterVars, aggVars, groupVars, parseVars, funcVars, optVars, remapVars>>

\* One pass of the loop over the lines: of the current file in column mode
\* and groupby, of all the files in lock-step in multiple mode
StreamRead ==
    /\ s_pc = "run"
    /\ IF s_mode = "multiple"
       THEN /\ \A k \in 1..NStreams : s_files[k].read < MaxStreamLines
            /\ s_files' = [k \in 1..NStreams |-> [s_files[k] EXCEPT !.read = @ + 1]]
       ELSE /\ s_files[s_current].read < MaxStreamLines
            /\ s_files' = [s_files EXCEPT ![s_current].read = @ + 1]
    /\ UNCHANGED <<s_mode, s_held, s_current, s_pc,
                   iterVars, aggVars, groupVars, parseVars, funcVars, optVars, remapVars>>

\* The loop ends: the current file is exhausted and the call that read it
\* returns (column mode, groupby), or zip finds the file e exhausted, having
\* taken a line from every file before it (multiple mode).  The run drops
\* its references to the file objects; it calls close() on none of them.
StreamEOF ==
    /\ s_pc = "run"
    /\ IF s_mode = "multiple"
       THEN /\ \E e \in 1..NStreams :
                   /\ \A k \in 1..(e - 1) : s_files[k].read < MaxStreamLines
                   /\ s_files' = [k \in 1..NStreams |->
                                     IF k < e THEN [s_files[k] EXCEPT !.read = @ + 1] ELSE s_files[k]]
            /\ s_held' = {}
            /\ s_pc' = "done"
       ELSE /\ s_held' = s_held \ {s_current}
            /\ s_pc' = IF s_current < NStreams THEN "start" ELSE "done"
            /\ UNCHANGED s_files
    /\ UNCHANGED <<s_mode, s_current, iterVars, aggVars, groupVars, parseVars, funcVars, optVars, remapVars>>

\* An exception leaves the loop body (IndexError of sublist, ValueError of
\* float): main_func prints the traceback and exits with status 1; the
\* frames of the traceback still refer to the file objects
StreamFail ==
    /\ s_pc = "run"
    /\ s_pc' = "error"
    /\ UNCHANGED <<s_mode, s_files, s_held, s_current,
                   iterVars, aggVars, groupVars, parseVars, funcVars, optVars, remapVars>>

\* The Python runtime finalizes a file object the run no longer refers to,
\* which closes the file: at once, later, or not before the process ends
StreamFinalize(k) ==
    /\ s_pc # "idle"
    /\ k \in OpenFiles \ s_held
    /\ s_files' = [s_files EXCEPT ![k].status = "closed"]
    /\ UNCHANGED <<s_mode, s_held, s_current, s_pc,
                   iterVars, aggVars, groupVars, parseVars, funcVars, optVars, remapVars>>

InitStream ==
    /\ s_mode \in StreamModes
    /\ s_files = [k \in 1..NStreams |-> [status |-> "unopened", read |-> 0]]
    /\ s_held = {}
    /\ s_current = 0
    /\ s_pc = "start"
    /\ IterIdle
    /\ AggIdle
    /\ GroupIdle
    /\ ParseIdle
    /\ FuncIdle
    /\ OptIdle
    /\ RemapIdle

NextStream ==
    \/ StreamOpen
    \/ StreamOpenFails
    \/ StreamRead
    \/ StreamEOF
    \/ StreamFail
    \/ \E k \in 1..NStreams : StreamFinalize(k)

SpecStream == InitStream /\ [][NextStream]_vars

-----------------------------------------------------------------------------
(* remap.py *)

\* the most lines the input files of one remap run hold together
MaxRemapLines == 3

\* the lines an input file of remap may hold
RemapLines ==
    { <<"a", NL>>,
      <<"c", NL>>,
      <<"a", TAB, "b", NL>>,
      <<"a", TAB, "c", NL>>,
      <<"c", TAB, "a", NL>>,
      <<NL>> }

\* the mapping files tried: two keys, and a key given twice
MappingFiles ==
    { << <<"a", TAB, "x", NL>>, <<"b", TAB, "y", NL>> >>,
      << <<"a", TAB, "y", NL>>, <<"b", TAB, "a", NL>>, <<"a", TAB, "x", NL>> >> }

\* the values of --missing
MissingActions == {"ignore", "warn", "skip", "fail", "empty"}

\* the values of -f tried: none (every field is remapped), the first field, the second field
RemapFieldOptions == { <<>>, <<1>>, <<2>> }

\* main's args tried: no file named (standard input), and two files
RemapArgs == { <<"-">>, <<"f1", "f2">> }

\* options.missing_action after main has looked at --strict and --warn
MissingAction(missing, strict, warn) ==
    IF strict THEN "fail" ELSE IF warn THEN "warn" ELSE missing

\* data[key] = value
DictSet(d, key, value) ==
    IF Position(d, key) = 0
    THEN Append(d, [key |-> key, value |-> value])
    ELSE [d EXCEPT ![Position(d, key)].value = value]

\* data after the loop of load_mapping over the rows of the mapping file,
\* with the default -F 1,2 and the default mapping delimiter TAB
RECURSIVE LoadMapping(_)
LoadMapping(mrows) ==
    IF mrows = <<>> THEN <<>>
    ELSE LET parts == SplitOn(Strip(mrows[Len(mrows)], Whitespace), TAB)
         IN  DictSet(LoadMapping(SubSeq(mrows, 1, Len(mrows) - 1)), parts[1], parts[2])

\* a test that takes every field for a field to remap
InFields_All(i) == TRUE

\* idx in options.fields; without -f options.fields is the universal set
InFields(i) ==
    r_options.fields = <<>> \/ \E k \in 1..Len(r_options.fields) : r_options.fields[k] = i

\* a mapping that gives back every key it does not hold
Missing_Lenient(action) == "key"

\* what data.__getitem__ does with a key data does not hold, by the class
\* load_mapping chose for data: a plain dict raises KeyError, cautiousdict
\* warns and gives back the key, skippingdict raises its exception,
\* lenientdict gives back the key
Missing(action) ==
    CASE action = "fail" -> "KeyError"
      [] action = "warn" -> "warn"
      [] action = "skip" -> "SkipRowException"
      [] action = "empty" -> "SkipColumnException"
      [] OTHER -> "key"

\* the inner loop of remap_file over the first n parts of a row: how it went
\* on ("ok", or the exception that ended it), new_parts, and the keys
\* reported on stderr
RECURSIVE RemapParts(_, _)
RemapParts(parts, n) ==
    IF n = 0 THEN [state |-> "ok", new_parts |-> <<>>, warned |-> <<>>]
    ELSE LET prev == RemapParts(parts, n - 1)
             part == parts[n]
             k == Position(r_mapping, part)
             missing == Missing(r_options.missing_action)
         IN  IF prev.state # "ok" THEN prev
             ELSE IF ~ InFields(n) THEN [prev EXCEPT !.new_parts = Append(@, part)]
             ELSE IF k # 0 THEN [prev EXCEPT !.new_parts = Append(@, r_mapping[k].value)]
             ELSE IF missing = "key" THEN [prev EXCEPT !.new_parts = Append(@, part)]
             ELSE IF missing = "warn"
                  THEN [prev EXCEPT !.new_parts = Append(@, part), !.warned = Append(@, part)]
             ELSE IF missing = "SkipColumnException" THEN prev
             ELSE [prev EXCEPT !.state = missing]

\* One pass of the loop of remap_file over the next line of the file
RemapLine(line) ==
    /\ r_pc = "run"
    /\ Len(r_read) < MaxRemapLines
    /\ r_read' = Append(r_read, line)
    /\ LET parts == SplitOn(Strip(line, Whitespace), TAB)
           row == RemapParts(parts, Len(parts))
       IN  /\ r_stderr' = r_stderr \o row.warned
           /\ r_stdout' = IF row.state = "ok"
                          THEN Append(r_stdout, Join(<<TAB>>, row.new_parts))
                          ELSE r_stdout
           /\ r_pc' = IF row.state = "KeyError" THEN "UnknownIDError" ELSE "run"
    /\ UNCHANGED <<r_options, r_mapping, r_args, r_arg,
                   iterVars, aggVars, groupVars, parseVars, funcVars, optVars, streamVars>>

\* the file is exhausted: remap_file returns and main's loop calls it for
\* the next of args, if any
RemapEOF ==
    /\ r_pc = "run"
    /\ IF r_arg < Len(r_args)
       THEN r_arg' = r_arg + 1 /\ r_pc' = "run"
       ELSE r_arg' = r_arg /\ r_pc' = "done"
    /\ UNCHANGED <<r_options, r_mapping, r_args, r_read, r_stdout, r_stderr,
                   iterVars, aggVars, groupVars, parseVars, funcVars, optVars, streamVars>>

InitRemap ==
    /\ \E missing \in MissingActions, strict \in BOOLEAN, warn \in BOOLEAN, fields \in RemapFieldOptions :
           r_options = [missing_action |-> MissingAction(missing, strict, warn), fields |-> fields]
    /\ \E mfile \in MappingFiles : r_mapping = LoadMapping(mfile)
    /\ r_args \in RemapArgs
    /\ r_arg = 1
    /\ r_read = <<>>
    /\ r_stdout = <<>>
    /\ r_stderr = <<>>
    /\ r_pc = "run"
    /\ IterIdle
    /\ AggIdle
    /\ GroupIdle
    /\ ParseIdle
    /\ FuncIdle
    /\ OptIdle
    /\ StreamIdle

NextRemap == (\E line \in RemapLines : RemapLine(line)) \/ RemapEOF

SpecRemap == InitRemap /\ [][NextRemap]_vars

-----------------------------------------------------------------------------
(* Properties of TableWithHeaderIterator, under SpecIter *)

\* the positions of it_log with the given outcome
LogAt(what) == {i \in 1..Len(it_log) : it_log[i].what = what}

\* the rows of the log that were yielded, in order
RECURSIVE YieldedOf(_)
YieldedOf(log) ==
    IF log = <<>> THEN <<>>
    ELSE LET init == YieldedOf(SubSeq(log, 1, Len(log) - 1))
         IN  IF log[Len(log)].what = "yield" THEN Append(init, log[Len(log)].values) ELSE init

\* C1: once a row has been emitted as data, no later row is captured as the
\* header or withheld from emission as a header (AWAITING_HEADER is left for
\* good by the first emitted row, a fully numeric first row included).
C1_NoHeaderAfterData ==
    \A i \in LogAt("yield") : \A j \in LogAt("header") : j < i

-----------------------------------------------------------------------------
(* Properties of column mode, under SpecColumn *)

\* the positions of stdout that hold a line of the given kind
PrintedAt(kind) == {i \in 1..Len(stdout) : stdout[i].kind = kind}

\* the streams the data rows of stdout come from, in output order
RECURSIVE DataSources(_)
DataSources(out) ==
    IF out = <<>> THEN <<>>
    ELSE LET init == DataSources(SubSeq(out, 1, Len(out) - 1))
         IN  IF out[Len(out)].kind = "data" THEN Append(init, out[Len(out)].src) ELSE init

Ended == pc \in {"done", "ValueError", "IndexError"}

\* C3: a cell that cannot be converted to a number is never fatal: the run
\* never ends in the ValueError of a failed conversion.
C3_NonNumericNeverFatal == pc # "ValueError"

\* C4: a column-mode run over N streams emits exactly one data row per
\* stream, stream k's row before stream k+1's: when the run has ended (a run
\* whose column selection names a missing column aside) the data rows of
\* stdout come from the streams 1, 2, ..., N in this order.
C4_OneRowPerStream ==
    (Ended /\ pc # "IndexError") => DataSources(stdout) = [k \in 1..NStreams |-> k]

\* C5: the output of a column-mode run contains at most one header line, it
\* precedes all data rows, and no line of a later stream is printed as a header.
C5_AtMostOneHeader ==
    /\ Cardinality(PrintedAt("header")) <= 1
    /\ \A i \in PrintedAt("header") : stdout[i].src = 1 /\ \A j \in PrintedAt("data") : i < j

\* C5 as amended: header lines come from the first stream only, one for every
\* line of it read before its first fully numeric row (there may be several),
\* all of them before every data row; no line of a later stream is printed
\* as a header.
C5_HeadersFromFirstStreamOnly ==
    /\ \A i \in PrintedAt("header") : stdout[i].src = 1 /\ \A j \in PrintedAt("data") : i < j
    /\ (pc = "run" /\ idx = 1 /\ ~ data_started) => Cardinality(PrintedAt("header")) = consumed[1]
    /\ (pc = "run" /\ idx > 1 /\ ~ data_started) => Cardinality(PrintedAt("header")) <= consumed[1]

\* C5's case: the first stream printed two header lines, and a later stream
\* held a non-numeric line (it produced no data) that was not printed
C5_Witness ==
    /\ pc = "done"
    /\ Cardinality(PrintedAt("header")) = 2
    /\ consumed[NStreams] > 0
    /\ stdout[Len(stdout)] = DataLine(<<>>, NStreams)

\* C6: after every processed data row all per-column accumulators of the
\* current stream have the same length (a new accumulator is back-filled with
\* zeros for the rows that preceded it).
C6_AccumulatorsEqualLength ==
    \A j, k \in 1..Len(result) : Len(result[j]) = Len(result[k])

\* the rows all have the same number of columns
SameWidth(rs) == \A i, k \in 1..Len(rs) : Len(rs[i]) = Len(rs[k])

\* column j of the rows
Column(rs, j) == [i \in 1..Len(rs) |-> rs[i][j]]

\* the row of the aggregates of the columns of rows of one width
ExpectedRow(name, rs) ==
    IF rs = <<>> THEN <<>>
    ELSE Flattened(name, [j \in 1..Len(rs[1]) |-> Column(rs, j)])

\* C10: for a stream whose data rows all have the same number of columns, the
\* output row holds at position j the aggregate of the column-j values of all
\* its data rows in row order (whatever the other streams held); first gives
\* the first data row and last the last one.
C10_ColumnAggregates ==
    [][ (pc = "run" /\ Len(stdout') = Len(stdout) + 1 /\ stdout'[Len(stdout')].kind = "data"
            /\ SameWidth(rows))
        => LET out == stdout'[Len(stdout')]
           IN  /\ out.src = idx
               /\ out.cells = ExpectedRow(options.function, rows)
               /\ (options.function = "first" /\ rows # <<>>) => out.cells = rows[1]
               /\ (options.function = "last" /\ rows # <<>>) => out.cells = rows[Len(rows)]
      ]_vars

\* C10's case: the second stream held the rows 1 and 2 (one column each)
\* after the first stream's row was printed, and its mean 3/2 was printed
C10_Witness ==
    /\ options.function = "mean"
    /\ Len(stdout) = 2
    /\ stdout[1].kind = "data" /\ stdout[1].cells # <<>>
    /\ consumed[2] = 2
    /\ stdout[2] = DataLine(<<Rat(3, 2)>>, 2)

-----------------------------------------------------------------------------
(* Properties of multiple mode, under SpecMultiple *)

\* the line count of the shortest stream
ShortestLen == CHOOSE n \in {lens[k] : k \in 1..NStreams} : \A k \in 1..NStreams : n <= lens[k]

\* C7: multiple mode stops as soon as any stream is exhausted and terminates
\* normally with no error: when the run has ended (a run whose column
\* selection names a missing column aside) it has ended normally, and the
\* rounds processed (one printed line each, header or data) are as many as
\* the shortest stream has lines.
C7_TruncatesToShortest ==
    (Ended /\ pc # "IndexError") => pc = "done" /\ Len(stdout) = ShortestLen

\* the last line printed
LastPrinted == stdout[Len(stdout)]

\* C8: before data has started, a round in which any of the N rows has a
\* non-numeric cell is a header round for all streams: it prints the header
\* text of the first stream's row and aggregates nothing (so a failed
\* conversion can only happen once data has been printed); once a round was
\* data, no later round is a header.
C8_JointHeaderRounds ==
    /\ \A i \in PrintedAt("header") : \A j \in PrintedAt("data") : i < j
    /\ data_started <=> (PrintedAt("data") # {} \/ pc = "ValueError")
    /\ pc = "ValueError" => PrintedAt("data") # {}
    /\ (pc \in {"run", "done"} /\ stdout # <<>> /\ LastPrinted.kind = "header") =>
          /\ \E k \in 1..NStreams : ~ only_numbers(lines[k])
          /\ LastPrinted.cells = ExpandHeaders(options.function, lines[1])
          /\ LastPrinted.src = 1
          /\ PrintedAt("data") = {}
    /\ (pc \in {"run", "done"} /\ stdout # <<>>) => Len(stdout) = consumed[NStreams]

\* C8's case: a round whose first row is numeric and whose last row is not
\* was printed as a header (the first stream's text), and the next round was data
C8_Witness ==
    /\ Len(stdout) = 2
    /\ stdout[1] = HeaderLine(<<<<"2">>>>, 1)
    /\ stdout[2].kind = "data"
    /\ options.fields = <<>>
    /\ ~ HasArgout(options.function)

\* position j of the output row of a data round: the aggregate of the values
\* at position j of the rows, in stream order
ExpectedAt(name, ls, j) ==
    LET r == Call(name, [k \in 1..Len(ls) |-> ls[k][j]])
    IN  IF ReturnsTuple(name) THEN r ELSE <<r>>

RECURSIVE ExpectedRound(_, _, _)
ExpectedRound(name, ls, w) ==
    IF w = 0 THEN <<>> ELSE ExpectedRound(name, ls, w - 1) \o ExpectedAt(name, ls, w)

\* C9: every data round of N rows prints exactly one line; it holds, for
\* every position j the N rows share, the aggregate of the N values at
\* position j in stream order, tuple results flattened in place.
C9_PositionWiseRounds ==
    (pc \in {"run", "done"} /\ stdout # <<>> /\ LastPrinted.kind = "data") =>
        /\ Len(stdout) = consumed[NStreams]
        /\ \A k \in 1..NStreams : Len(lines[k]) >= 1
        /\ LastPrinted.cells = ExpectedRound(options.function, lines, MinWidth(lines))
        /\ options.function = "first" => LastPrinted.cells = SubSeq(lines[1], 1, MinWidth(lines))
        /\ options.function = "last" => LastPrinted.cells = SubSeq(lines[NStreams], 1, MinWidth(lines))

\* C9's case: two data rounds with sum, the second over the rows 1 and 2 2 ..., printed as 1 + 2 + ...
C9_Witness ==
    /\ options.function = "sum"
    /\ Len(stdout) = 2
    /\ stdout[1].kind = "data"
    /\ lines[1] = <<Rat(1, 1)>>
    /\ \A k \in 2..NStreams : lines[k] = <<Rat(2, 1)>>
    /\ stdout[2] = DataLine(<<Rat(2 * NStreams - 1, 1)>>, 0)

-----------------------------------------------------------------------------
(* Properties of groupby.py, under SpecGroup *)

\* the file f has been read to its end and its groups printed
Completed(f) == f < g_arg \/ g_pc = "done"

\* the selected fields of a row, as process_file takes them
RowParts(line) ==
    IF GroupColIdxs # <<>> THEN sublist(GroupSplit(line), GroupColIdxs) ELSE GroupSplit(line)

\* the keys of the rows read from the file f, in input order
KeySeq(f) == [i \in 1..Len(g_read[f]) |-> RowParts(g_read[f][i])[1]]

\* the distinct elements of a sequence, each at the place of its first occurrence
RECURSIVE FirstOccurrences(_)
FirstOccurrences(keys) ==
    IF keys = <<>> THEN <<>>
    ELSE LET init == FirstOccurrences(SubSeq(keys, 1, Len(keys) - 1))
             k == keys[Len(keys)]
         IN  IF \E i \in 1..Len(init) : init[i] = k THEN init ELSE Append(init, k)

\* the lines printed for the file f, in order
PrintedFor(f) ==
    LET FromF(out) == out.src = f
    IN  SelectSeq(g_stdout, FromF)

\* the keys of the lines printed for the file f, in order
PrintedKeys(f) == [i \in 1..Len(PrintedFor(f)) |-> PrintedFor(f)[i].cells[1]]

\* process_file has not failed on a row of the file f
NoIndexError(f) == ~ (f = g_arg /\ g_pc = "IndexError")

\* C11: for every input file the output rows carry the distinct keys of the
\* file's rows, one row per key, in the order in which each key first
\* occurred: while the groups are printed the keys printed so far are the
\* first ones of that order, and once the file is done they are all of it.
C11_OneRowPerKeyInFirstOccurrenceOrder ==
    \A f \in 1..Len(g_args) :
        NoIndexError(f) =>
            LET expected == FirstOccurrences(KeySeq(f))
                printed == PrintedKeys(f)
            IN  /\ Len(printed) <= Len(expected)
                /\ printed = SubSeq(expected, 1, Len(printed))
                /\ Completed(f) => printed = expected

\* a file is done whose third row repeats the key of its first row after a
\* row with another key, and two rows were printed for it
C11_Witness ==
    \E f \in 1..Len(g_args) :
        /\ Completed(f)
        /\ Len(g_read[f]) = 3
        /\ KeySeq(f)[3] = KeySeq(f)[1]
        /\ KeySeq(f)[2] # KeySeq(f)[1]
        /\ Len(PrintedFor(f)) = 2

\* the value fields of the rows with the given key, concatenated in input order
RECURSIVE ValuesOf(_, _)
ValuesOf(read, key) ==
    IF read = <<>> THEN <<>>
    ELSE LET init == ValuesOf(SubSeq(read, 1, Len(read) - 1), key)
             parts == RowParts(read[Len(read)])
         IN  IF parts[1] = key THEN init \o Tail(parts) ELSE init

\* the sequence has no element twice
NoDuplicates(s) == \A i, j \in 1..Len(s) : i # j => s[i] # s[j]

\* the set of the elements of a sequence
Range(s) == {s[i] : i \in 1..Len(s)}

\* C12: every row printed for a finished file is a key followed by values
\* made of the value fields of all the file's rows with that key: under the
\* non-unique policy their concatenation in input order, duplicates kept;
\* under the unique policy each distinct value exactly once.
C12_ValuesPerKey ==
    \A f \in 1..Len(g_args) :
        Completed(f) =>
            \A i \in 1..Len(PrintedFor(f)) :
                LET cells == PrintedFor(f)[i].cells
                    seen == ValuesOf(g_read[f], cells[1])
                IN  IF g_options.unique
                    THEN /\ NoDuplicates(Tail(cells))
                         /\ Range(Tail(cells)) = Range(seen)
                    ELSE Tail(cells) = seen

\* under the non-unique policy a row was printed whose key came with the
\* same value twice and another value in between
C12_Witness ==
    /\ ~ g_options.unique
    /\ \E f \in 1..Len(g_args) :
           /\ Completed(f)
           /\ \E i \in 1..Len(PrintedFor(f)) :
                  LET cells == PrintedFor(f)[i].cells
                  IN  /\ Len(cells) = 4
                      /\ cells[2] = cells[4]
                      /\ cells[3] # cells[2]

\* the map e holds every key of the map d at the same place, with a bucket
\* that holds at least what d's bucket holds
MapGrows(d, e) ==
    /\ Len(d) <= Len(e)
    /\ \A i \in 1..Len(d) :
           /\ e[i].key = d[i].key
           /\ IF g_options.unique
              THEN d[i].values \subseteq e[i].values
              ELSE /\ Len(d[i].values) <= Len(e[i].values)
                   /\ d[i].values = SubSeq(e[i].values, 1, Len(d[i].values))

\* C13, as stated: over a whole run, several input files included, the map
\* only grows and once a line has been printed no further input is read.
C13_MapOnceOutputLast ==
    [][ /\ MapGrows(keys_to_values, keys_to_values')
        /\ (g_stdout # <<>> => g_read' = g_read) ]_vars

\* C13, amended: the map is per input file.  While one file is worked on the
\* map only grows, a line of the file is read only while nothing has been
\* printed for that file, and a line is printed only after the file's last
\* line was read; when main goes on to the next file the map starts empty again.
C13_MapPerFile ==
    [][ /\ (g_arg' = g_arg => MapGrows(keys_to_values, keys_to_values'))
        /\ (g_arg' # g_arg => keys_to_values' = <<>>)
        /\ (g_read' # g_read => g_pc = "read" /\ PrintedFor(g_arg) = <<>>)
        /\ (g_stdout' # g_stdout => g_pc = "print" /\ g_pc' = "print" /\ g_read' = g_read) ]_vars

\* the groups of the first file have been printed and the map, emptied
\* since, holds a key of the second file
C13_Witness ==
    /\ g_arg = 2
    /\ PrintedFor(1) # <<>>
    /\ g_read[2] # <<>>
    /\ keys_to_values # <<>>

-----------------------------------------------------------------------------
(* Properties of parse_index_specification, under SpecParse *)

\* the comma-separated tokens of the specification
Tokens == SplitOn(p_spec, ",")

\* the tokens the loop has dealt with
TokensDone == SubSeq(Tokens, 1, Len(Tokens) - Len(p_parts))

Trim(t) == Strip(t, Whitespace)

\* a non-empty run of digits
IsDigits(t) == t # <<>> /\ \A i \in 1..Len(t) : t[i] \in Digits

\* a decimal integer, with or without a minus sign
IsInteger(t) == IsDigits(t) \/ (t # <<>> /\ t[1] = "-" /\ IsDigits(Tail(t)))

\* the places of a dash that has unsigned integers on both sides
PlainCuts(t) ==
    {i \in 1..Len(t) : /\ t[i] = "-"
                       /\ IsDigits(Trim(SubSeq(t, 1, i - 1)))
                       /\ IsDigits(Trim(SubSeq(t, i + 1, Len(t))))}

\* a token that is one unsigned integer
IsPlainInteger(t) == IsDigits(Trim(t))

\* a token lo-hi of two unsigned integers
IsPlainRange(t) == PlainCuts(Trim(t)) # {}

Lo(t) == LET u == Trim(t) IN DecimalValue(Trim(SubSeq(u, 1, (CHOOSE i \in PlainCuts(u) : TRUE) - 1)))
Hi(t) == LET u == Trim(t) IN DecimalValue(Trim(SubSeq(u, (CHOOSE i \in PlainCuts(u) : TRUE) + 1, Len(u))))

\* what a token stands for: the integer itself, or lo, lo+1, ..., hi
Expand(t) ==
    IF IsPlainInteger(t) THEN <<DecimalValue(Trim(t))>>
    ELSE [k \in 1..(Hi(t) - Lo(t) + 1) |-> Lo(t) + k - 1]

RECURSIVE ExpandAll(_)
ExpandAll(tokens) ==
    IF tokens = <<>> THEN <<>>
    ELSE ExpandAll(SubSeq(tokens, 1, Len(tokens) - 1)) \o Expand(tokens[Len(tokens)])

\* every token is an unsigned integer or a range lo-hi with lo <= hi
AllTokensPlain(tokens) ==
    \A i \in 1..Len(tokens) :
        \/ IsPlainInteger(tokens[i])
        \/ IsPlainRange(tokens[i]) /\ Lo(tokens[i]) <= Hi(tokens[i])

\* C14: for a specification made of integers and ranges lo-hi (lo <= hi) the
\* function does not fail, and what it has built after each token, and what
\* it returns, is the expansion of the tokens so far in the order given,
\* ranges ascending, nothing reordered and nothing dropped as a duplicate.
C14_ExpandsTokensInOrder ==
    AllTokensPlain(Tokens) =>
        /\ p_pc \in {"loop", "returned"}
        /\ p_result = ExpandAll(TokensDone)
        /\ p_pc = "returned" => p_result = ExpandAll(Tokens)

\* "2,1-2" has returned [2, 1, 2]
C14_Witness ==
    /\ p_pc = "returned"
    /\ p_spec = <<"2", ",", "1", "-", "2">>
    /\ p_result = <<2, 1, 2>>

\* C15: a specification with a range token lo-hi where lo > hi is never
\* answered with a sequence.
C15_ReversedRangeFails ==
    (\E i \in 1..Len(Tokens) : IsPlainRange(Tokens[i]) /\ Lo(Tokens[i]) > Hi(Tokens[i]))
        => p_pc # "returned"

\* a token lo-hi of two integers, either of them with or without a minus sign
IsRange(t) ==
    \E i \in 1..Len(t) : /\ t[i] = "-"
                         /\ IsInteger(Trim(SubSeq(t, 1, i - 1)))
                         /\ IsInteger(Trim(SubSeq(t, i + 1, Len(t))))

\* a token that is neither an integer nor a range
IsMalformed(t) == ~ IsInteger(Trim(t)) /\ ~ IsRange(Trim(t))

\* C16: a specification with a token that is neither an integer nor a range
\* lo-hi, the empty specification (whose one token is empty) among them, is
\* never answered with a sequence; the call ends in ValueError.
C16_MalformedFails ==
    (\E i \in 1..Len(Tokens) : IsMalformed(Tokens[i]))
        => /\ p_pc # "returned"
           /\ (p_parts = <<>> => p_pc = "ValueError")

\* "1,,2" has failed on its empty token, with 1 already in the local result
C16_Witness ==
    /\ p_pc = "ValueError"
    /\ p_spec = <<"1", ",", ",", "2">>
    /\ p_result = <<1>>

\* C17: every element of a returned sequence is at least 1.
C17_ElementsAtLeastOne ==
    p_pc = "returned" => \A i \in 1..Len(p_result) : p_result[i] >= 1

-----------------------------------------------------------------------------
(* Properties of the aggregator functions, under SpecFunc *)

\* C18: called with an empty sequence mean returns 0.0 and mean_sd, mean_err
\* and mean_95ci return (0.0, 0.0); called with a one-element sequence [x]
\* each of mean_sd, mean_err and mean_95ci returns (x, 0.0); none of these
\* calls fails.
C18_MeanFamilyDegenerate ==
    (f_pc # "call" /\ Len(f_items) <= 1) =>
        /\ f_name = "mean" /\ f_items = <<>> => f_pc = "returned" /\ f_result = <<0, 1>>
        /\ f_name \in {"mean_sd", "mean_err", "mean_95ci"} =>
               /\ f_pc = "returned"
               /\ f_result = << (IF f_items = <<>> THEN <<0, 1>> ELSE f_items[1]), <<0, 1>> >>

\* mean_95ci has returned (3.0, 0.0) for [3.0]
C18_Witness ==
    /\ f_pc = "returned"
    /\ f_name = "mean_95ci"
    /\ f_items = << <<3, 1>> >>
    /\ f_result = << <<3, 1>>, <<0, 1>> >>

\* C19: called with an empty sequence each of first, last, min and max
\* returns None.
C19_AbsenceOnEmpty ==
    (f_pc # "call" /\ f_items = <<>> /\ f_name \in {"first", "last", "min", "max"}) =>
        f_pc = "returned" /\ f_result = None

\* the k-th smallest of the items, counted with repetitions
Kth(items, k) ==
    CHOOSE x \in {items[i] : i \in 1..Len(items)} :
        /\ Cardinality({i \in 1..Len(items) : RatLess(items[i], x)}) < k
        /\ Cardinality({i \in 1..Len(items) : ~ RatLess(x, items[i])}) >= k

\* the median by rank: the middle one of an odd number of items, the
\* average of the two middle ones of an even number, None of none
MedianByRank(items) ==
    LET n == Len(items)
    IN  IF n = 0 THEN None
        ELSE IF n % 2 = 1 THEN Kth(items, (n + 1) \div 2)
        ELSE RatDiv(RatAdd(Kth(items, n \div 2), Kth(items, n \div 2 + 1)), <<2, 1>>)

\* the items in every order
Reorderings(items) ==
    {[i \in 1..Len(items) |-> items[q[i]]] : q \in Permutations(1..Len(items))}

\* C20: a call of median returns: None for an empty sequence, else the middle
\* element of the sorted items (odd length) or the average of the two middle
\* ones (even length); every reordering of the items has the same median;
\* the caller's sequence is as it was; median([1,2,3]) is 2.0 and
\* median([1,2,3,4]) is 2.5.
C20_Median ==
    [][ (f_pc = "call" /\ f_name = "median") =>
            /\ f_pc' = "returned"
            /\ f_result' = MedianByRank(f_items)
            /\ \A other \in Reorderings(f_items) : median(other) = f_result'
            /\ f_items' = f_items
            /\ (f_items = << <<1, 1>>, <<2, 1>>, <<3, 1>> >> => f_result' = <<2, 1>>)
            /\ (f_items = << <<1, 1>>, <<2, 1>>, <<3, 1>>, <<4, 1>> >> => f_result' = <<5, 2>>) ]_vars

\* median has returned 2.5 for [4.0, 1.0, 3.0, 2.0], which is as it was
C20_Witness ==
    /\ f_pc = "returned"
    /\ f_name = "median"
    /\ f_items = << <<4, 1>>, <<1, 1>>, <<3, 1>>, <<2, 1>> >>
    /\ f_result = <<5, 2>>

-----------------------------------------------------------------------------
(* Properties of the header line of the aggregation modes, under SpecColumn *)

\* the suffix a two-valued aggregator gives to its second value
SecondSuffix(name) ==
    CASE name = "mean_sd" -> <<"s", "d">>
      [] name = "mean_err" -> <<"e", "r", "r">>
      [] name = "mean_95ci" -> <<"9", "5", "c", "i">>

\* the cells hs are the header names expanded for the function: for a
\* two-valued aggregator every name h gives h and h_<suffix>, in column
\* order; for a single-valued one the names themselves
IsExpansionOf(hs, names, name) ==
    IF name \in {"mean_sd", "mean_err", "mean_95ci"}
    THEN /\ Len(hs) = 2 * Len(names)
         /\ \A j \in 1..Len(names) :
                /\ hs[2 * j - 1] = names[j]
                /\ hs[2 * j] = names[j] \o <<"_">> \o SecondSuffix(name)
    ELSE hs = names

\* the selected cells of a line, as column mode takes them
ColCells(line) ==
    IF ColIdxs # <<>> THEN sublist(ColSplit(line), ColIdxs) ELSE ColSplit(line)

\* C21: a step that prints a header line prints the expansion of the names
\* of a non-numeric input row (each name h as h and h_<suffix> for a
\* multi-valued aggregator, unchanged for a single-valued one), and the
\* line has as many fields as the output row of data rows of that width.
C21_HeaderExpansion ==
    [][ (Len(stdout') = Len(stdout) + 1 /\ stdout'[Len(stdout')].kind = "header")
        => \E line \in Lines :
               /\ ColIdxs # <<>> => SublistOK(ColSplit(line), ColIdxs)
               /\ ~ only_numbers(ColCells(line))
               /\ IsExpansionOf(stdout'[Len(stdout')].cells, ColCells(line), options.function)
               /\ Len(stdout'[Len(stdout')].cells) =
                      Len(ExpectedRow(options.function, << [j \in 1..Len(ColCells(line)) |-> Zero] >>))
      ]_vars

\* with mean_sd the header a b was printed as a, a_sd, b, b_sd, and the
\* data row after it has four fields
C21_Witness ==
    /\ options.function = "mean_sd"
    /\ Len(stdout) = 2
    /\ stdout[1] = HeaderLine(<< <<"a">>, <<"a", "_", "s", "d">>, <<"b">>, <<"b", "_", "s", "d">> >>, 1)
    /\ stdout[2].kind = "data"
    /\ Len(stdout[2].cells) = 4

-----------------------------------------------------------------------------
(* More properties of TableWithHeaderIterator, under SpecIter *)

\* the positions of it_log that hold a data row, yielded or not
DataAt == {i \in 1..Len(it_log) : it_log[i].what \in {"yield", "drop"}}

\* the zero-based index of the data row at position i among the data rows
DataIndex(i) == Cardinality({k \in DataAt : k < i})

\* C22: with every = N >= 1 the rows emitted are exactly the data rows whose
\* zero-based index among the data rows (the captured header and skipped
\* empty rows not counted) is a multiple of N, in input order; with N = 1
\* these are all the data rows.
C22_EveryNth ==
    /\ it.every >= 1
    /\ line_number = Cardinality(DataAt)
    /\ \A i \in DataAt : it_log[i].what = "yield" <=> DataIndex(i) % it.every = 0
    /\ yielded = YieldedOf(it_log)
    /\ it.every = 1 => Len(yielded) = Cardinality(DataAt)

\* with every = 2, of three data rows the first and the third were emitted
C22_Witness ==
    /\ it.every = 2
    /\ Len(it_log) = 3
    /\ it_log[1].what = "yield"
    /\ it_log[2].what = "drop"
    /\ it_log[3].what = "yield"
    /\ Len(yielded) = 2

-----------------------------------------------------------------------------
(* More properties of column mode, under SpecColumn *)

\* C23: ragged numeric input never raises in column mode: when all the lines
\* read so far from the current stream were all-numeric rows, reading one
\* more all-numeric row, of whatever width and with or without a column
\* selection, leaves the run going.
C23_RaggedNeverRaises ==
    [][ \A line \in Lines :
            (ColLine(line) /\ only_numbers(ColSplit(line)) /\ consumed[idx] = Len(rows))
                => pc' = "run" ]_vars

-----------------------------------------------------------------------------
(* Properties of the output delimiter, under SpecOpt *)

\* C24, as stated: in both tools a row printed when -D was not given has its
\* fields joined with the input delimiter.
C24_OutputDefaultsToInput ==
    (o_pc = "done" /\ o_argv.D = None) => o_line = Join(o_options.in_delimiter, o_fields)

\* C24, amended: when -D was not given, groupby.py joins the fields with the
\* input delimiter and aggregate.py joins them with TAB, whatever the input
\* delimiter is.
C24_OutputDelimiterDefaults ==
    (o_pc = "done" /\ o_argv.D = None) =>
        /\ o_tool = "groupby" => o_line = Join(o_options.in_delimiter, o_fields)
        /\ o_tool = "aggregate" => o_line = Join(<<TAB>>, o_fields)
        /\ o_options.in_delimiter = (IF o_argv.d = None THEN <<TAB>> ELSE o_argv.d)

\* aggregate.py, given -d "," and no -D, has printed a row of two fields
\* with a TAB between them
C24_Witness ==
    /\ o_pc = "done"
    /\ o_tool = "aggregate"
    /\ o_argv = [d |-> <<",">>, D |-> None]
    /\ o_line = <<"a", TAB, "1">>

-----------------------------------------------------------------------------
(* Properties of the input streams, under SpecStream *)

\* C25: when the run has ended, normally, by truncation in multiple mode or
\* by an error, none of the files it opened is still open.
C25_StreamsReleased ==
    s_pc \in {"done", "error"} => OpenFiles = {}

-----------------------------------------------------------------------------
(* Properties of remap.py, under SpecRemap *)

\* field i of a row is one of the fields to remap
Selected(i) ==
    r_options.fields = <<>> \/ i \in { r_options.fields[k] : k \in DOMAIN r_options.fields }

\* the mapping holds the key
Known(key) == \E k \in DOMAIN r_mapping : r_mapping[k].key = key

\* what the mapping gives for a key it holds
ValueOf(key) == r_mapping[CHOOSE k \in DOMAIN r_mapping : r_mapping[k].key = key].value

\* the fields of an input row
RemapCells(line) == SplitOn(Strip(line, Whitespace), TAB)

\* some field to remap of the row holds a key the mapping lacks
Unknown(line) ==
    \E i \in DOMAIN RemapCells(line) : Selected(i) /\ ~ Known(RemapCells(line)[i])

AllKnown(line) == ~ Unknown(line)

\* the output line of a row: the fields to remap replaced by what the mapping
\* gives for them, fields without a mapped key dropped, other fields as they are
RECURSIVE Translate(_, _)
Translate(cells, i) ==
    IF i > Len(cells) THEN <<>>
    ELSE IF ~ Selected(i) THEN <<cells[i]>> \o Translate(cells, i + 1)
    ELSE IF Known(cells[i]) THEN <<ValueOf(cells[i])>> \o Translate(cells, i + 1)
    ELSE Translate(cells, i + 1)

Translated(line) == Join(<<TAB>>, Translate(RemapCells(line), 1))

\* C26: under the "fail" policy the first row with a key the mapping lacks in a
\* remapped field ends the run in UnknownIDError; the rows before it have been
\* printed in order and stay printed, the offending row is not printed and no
\* later row is read; while no such row has come, every row read is printed
C26_FailPolicy ==
    r_options.missing_action = "fail" =>
        LET bad == { i \in DOMAIN r_read : Unknown(r_read[i]) }
            printed == IF bad = {} THEN Len(r_read)
                       ELSE (CHOOSE b \in bad : \A c \in bad : b <= c) - 1
        IN  /\ (r_pc = "UnknownIDError") = (bad # {})
            /\ bad # {} => Len(r_read) = printed + 1
            /\ Len(r_stdout) = printed
            /\ \A i \in 1..printed : r_stdout[i] = Translated(r_read[i])

C26_Witness ==
    /\ r_options = [missing_action |-> "fail", fields |-> <<1>>]
    /\ r_pc = "UnknownIDError"
    /\ r_read = << <<"a", TAB, "c", NL>>, <<"a", NL>>, <<"c", TAB, "a", NL>> >>
    /\ r_stdout = << <<"x", TAB, "c">>, <<"x">> >>

\* C27: under the "skip" policy the output is, in input order, the rows whose
\* every remapped field has its key in the mapping, each whole, with the other
\* fields as they were; under the "empty" policy every row gives one output
\* line, which lacks just the remapped fields whose key the mapping lacks
C27_SkipAndEmptyPolicies ==
    /\ r_options.missing_action = "skip" =>
           LET kept == SelectSeq(r_read, AllKnown)
           IN  /\ Len(r_stdout) = Len(kept)
               /\ \A i \in DOMAIN kept :
                      /\ r_stdout[i] = Translated(kept[i])
                      /\ Len(SplitOn(r_stdout[i], TAB)) = Len(RemapCells(kept[i]))
                      /\ \A j \in DOMAIN RemapCells(kept[i]) :
                             ~ Selected(j) => SplitOn(r_stdout[i], TAB)[j] = RemapCells(kept[i])[j]
    /\ r_options.missing_action = "empty" =>
           /\ Len(r_stdout) = Len(r_read)
           /\ \A i \in DOMAIN r_read : r_stdout[i] = Translated(r_read[i])
    /\ r_options.missing_action \in {"skip", "empty"} => r_pc # "UnknownIDError"

C27_Witness ==
    /\ r_options = [missing_action |-> "skip", fields |-> <<1>>]
    /\ r_pc = "done"
    /\ r_read = << <<"a", TAB, "b", NL>>, <<"c", TAB, "a", NL>>, <<"a", TAB, "c", NL>> >>
    /\ r_stdout = << <<"x", TAB, "b">>, <<"x", TAB, "c">> >>

\* the "empty" policy at work: the second row loses its first field
C27_EmptyReached ==
    /\ r_options = [missing_action |-> "empty", fields |-> <<>>]
    /\ r_read = << <<"a", TAB, "b", NL>>, <<"c", TAB, "a", NL>> >>
    /\ r_stdout = << <<"x", TAB, "y">>, <<"x">> >>

-----------------------------------------------------------------------------
(* The width of the emitted rows, under SpecIter *)

\* C28: once a header is captured, every row emitted after it has at most as
\* many cells as the header
C28_RowsWithinHeader ==
    \A i \in DOMAIN it_log : \A j \in DOMAIN it_log :
        (i < j /\ it_log[i].what = "header" /\ it_log[j].what = "yield")
            => Len(it_log[j].values) <= Len(it_log[i].parts)

-----------------------------------------------------------------------------
(* Blank lines, under SpecIter *)

\* the line holds nothing but its terminator
IsBlank(line) == Strip(line, {CR, NL}) = <<>>

\* the step leaves alone the iterator's state: the header and the every-Nth
\* counter, and emits nothing
IterStateKept ==
    /\ seen_header' = seen_header
    /\ seen_header => headers' = headers
    /\ line_number' = line_number
    /\ Len(yielded') = Len(yielded)

\* a row of one empty cell
OneEmptyCell == << <<>> >>

-----------------------------------------------------------------------------
(* The strip option in multiple mode, under SpecMultiple *)

\* the fields of a line that has lost all its leading and trailing whitespace
FullSplit(line) == SplitOn(Strip(line, {SP, TAB, CR, NL}), TAB)

\* a line that has an empty field at its end once its terminator is taken off
EndsInEmptyField == <<"2", TAB, NL>>

\* the rows of the last round are numbers: the round was a data round
RowsAreNumbers == pc \in {"run", "done"} /\ stdout # <<>> /\ LastPrinted.kind = "data"

=============================================================================
